---------------------------- MODULE Spec2Model ----------------------------
(***************************************************************************)
(* A model of the connectus chat relay: src/server.js (the message log,    *)
(* its persistence to messages.json, the AES codec, postMessage, the       *)
(* messages query and the two subscriptions) and src/unnamed/part_001      *)
(* (the same relay with the user_chats_view query).                        *)
(*                                                                         *)
(* Representation of JavaScript values                                     *)
(*   - a JS string that carries text is a sequence of UTF-16 code units;   *)
(*     the code unit "LS" stands for an unpaired surrogate and "FFFD" for  *)
(*     U+FFFD, which is what Node's UTF-8 encoder writes for one;          *)
(*   - the token iv.hex + ':' + ciphertext.hex is the record               *)
(*     [kind |-> "cipher", key, iv, text]: key is the key the bytes were   *)
(*     encrypted under, text the UTF-8 bytes that were encrypted.  Hex     *)
(*     never holds ':', so split(':')/shift/join(':') gives back exactly   *)
(*     the two parts that were joined;                                     *)
(*   - a plaintext content is [kind |-> "plain", key |-> "-", iv |-> "-",  *)
(*     text], so that both forms of `content` are records of one shape;    *)
(*   - an ISO-8601 timestamp is [sec, ms], the fields the string carries;  *)
(*   - a message id is the decimal digit sequence String(n) produces;      *)
(*   - a pub/sub topic such as `MESSAGE_ADDED_${roomId}` is the pair       *)
(*     <<prefix, argument>>; the two prefixes differ at their ninth        *)
(*     character, so the concatenations are equal only if the pairs are.   *)
(***************************************************************************)
EXTENDS Integers, Sequences, FiniteSets, TLC

VARIABLES
    messages,     \* server.js:41   the in-memory log: the elements of the array
    logType,      \* server.js:41   what kind of JSON value `messages` is
    file,         \* server.js:16   the content of DATA_FILE (messages.json)
    secretKey,    \* server.js:50   the process-wide AES key
    envKey,       \* server.js:52   process.env.CHAT_SECRET_KEY
    now,          \* the wall clock read by new Date(), in milliseconds
    subscribers,  \* server.js:12   the listeners registered on pubSub, with what each received
    ret,          \* the value the last resolver call returned to its caller
    returned,     \* history: the Messages postMessage returned in this process, in call order
    published,    \* history: every pubSub.publish of this process, in call order
    posts         \* history: the number of postMessage calls so far (bounds the model)

vars == <<messages, logType, file, secretKey, envKey, now, subscribers, ret,
          returned, published, posts>>

---------------------------------------------------------------------------
(* Bounds and input sets *)

MaxPosts == 3
MaxClock == 2
MaxSubs  == 2

Rooms    == {"r1", "r2", "toString"}
Users    == {"alice", "bob"}
Texts    == { <<"h", "i">>, <<"LS">> }
IVs      == {"iv1", "iv2"}
Keys     == {"k1", "k2"}
EnvKeys  == {"unset", "invalid", "k1"}
SubIds   == 1..MaxSubs
WriteOutcomes == {"ok", "untouched", "partial"}

---------------------------------------------------------------------------
(* JavaScript conversions *)

\* String(n) for a non-negative integer: its decimal digits.
RECURSIVE String(_)
String(n) == IF n < 10 THEN <<n>> ELSE String(n \div 10) \o <<n % 10>>

\* The number a decimal digit sequence denotes.
RECURSIVE Number(_)
Number(s) ==
    IF Len(s) = 0 THEN 0
    ELSE 10 * Number(SubSeq(s, 1, Len(s) - 1)) + s[Len(s)]

\* Date.prototype.toISOString: the seconds and the milliseconds field.
toISOString(t) == [sec |-> t \div 1000, ms |-> t % 1000]

\* new Date(isoString).getTime()
DateValue(s) == s.sec * 1000 + s.ms

\* UTF-8 encoding of a JS string: an unpaired surrogate is written as U+FFFD.
Utf8Encode(text) ==
    [i \in DOMAIN text |-> IF text[i] = "LS" THEN "FFFD" ELSE text[i]]

\* Buffer.toString(): UTF-8 decoding of well-formed bytes.
Utf8Decode(bytes) == bytes

Plain(text) == [kind |-> "plain", key |-> "-", iv |-> "-", text |-> text]

---------------------------------------------------------------------------
(* Persistence: server.js:16-41 *)

\* What DATA_FILE can be: absent; "ok", the JSON of an array of messages
\* (data); unreadable (readFileSync throws); corrupt (JSON.parse throws);
\* "nonarray", valid JSON of a value that is no array, such as {}.
AbsentFile     == [kind |-> "absent",     data |-> <<>>]
CorruptFile    == [kind |-> "corrupt",    data |-> <<>>]
UnreadableFile == [kind |-> "unreadable", data |-> <<>>]
NonArrayFile   == [kind |-> "nonarray",   data |-> <<>>]

\* loadMessages: the parsed array if the file exists and parses, else [].
\* The elements of what it returns.
loadMessages(f) == IF f.kind = "ok" THEN f.data ELSE <<>>

\* loadMessages returns whatever JSON.parse returned, array or not: the kind
\* of value it returns.
loadedType(f) == IF f.kind = "nonarray" THEN "object" ELSE "array"

\* saveMessages: writeFileSync of the whole log.  outcome is what the file
\* system did: "ok" (written), "untouched" (the open failed), "partial" (the
\* file was truncated and the write failed part way: no longer valid JSON).
\* The catch swallows the error in both failing cases.
saveMessages(f, data, outcome) ==
    CASE outcome = "ok"        -> [kind |-> "ok", data |-> data]
      [] outcome = "untouched" -> f
      [] outcome = "partial"   -> CorruptFile

\* The key provisioning at process start: a valid CHAT_SECRET_KEY, else
\* randomBytes(32).
ProvisionedKeys(env) == IF env \in Keys THEN {env} ELSE Keys

---------------------------------------------------------------------------
(* Codec: server.js:67-88 *)

Sentinel == Plain(<<"[Error: Could not decrypt message]">>)
Garbage  == Plain(<<"garbage">>)

encrypt(key, iv, text) ==
    [kind |-> "cipher", key |-> key, iv |-> iv, text |-> Utf8Encode(text)]

\* Under a wrong key the last block deciphers to unrelated bytes; final()
\* throws unless they happen to end in valid PKCS#7 padding.  Which tokens do
\* is fixed by AES; here it is the tokens whose iv is "iv2".
PaddingAccepted(key, token) == token.iv = "iv2"

decrypt(key, token) ==
    IF token.kind # "cipher" THEN Sentinel
    ELSE IF token.key = key THEN Plain(Utf8Decode(token.text))
    ELSE IF PaddingAccepted(key, token) THEN Garbage
    ELSE Sentinel

---------------------------------------------------------------------------
(* Pub/sub: createPubSub(), server.js:12, 150-151, 156-163 *)

RoomTopic(roomId) == <<"MESSAGE_ADDED_", roomId>>
UserTopic(user)   == <<"MESSAGE_TO_", user>>

\* The topics of the two publishes of postMessage, server.js:150-151
MessageAddedTopic(message) == RoomTopic(message.roomId)

\* The second publish addressed to the sender instead of the recipient.
MessageSentToSenderTopic(message) == UserTopic(message.user)

MessageSentToUserTopic(message) == UserTopic(message.to)

\* A subscriber: state is the client's feed (idle: not started, active,
\* cancelled), registered says whether its listener is in the registry of
\* pubSub, inbox is what the feed has yielded.  since is history: the number
\* of publishes made before it registered.
IdleSubscriber ==
    [state |-> "idle", registered |-> FALSE, topic |-> <<"-", "-">>,
     inbox |-> <<>>, since |-> 0]

\* publish that matches listeners by the kind of topic only, not its argument.
publishByPrefix(subs, topic, payload) ==
    [s \in DOMAIN subs |->
        IF subs[s].registered /\ subs[s].topic[1] = topic[1]
        THEN [subs[s] EXCEPT !.inbox = Append(@, payload)]
        ELSE subs[s]]

\* publish that puts the payload in front of what the listener holds, so that
\* a listener reads the newest message first.
publishPrepending(subs, topic, payload) ==
    [s \in DOMAIN subs |->
        IF subs[s].registered /\ subs[s].topic = topic
        THEN [subs[s] EXCEPT !.inbox = <<payload>> \o @]
        ELSE subs[s]]

\* pubSub.publish(topic, payload): the payload goes to every listener that is
\* registered on exactly that topic now, and is kept nowhere.
publish(subs, topic, payload) ==
    [s \in DOMAIN subs |->
        IF subs[s].registered /\ subs[s].topic = topic
        THEN [subs[s] EXCEPT !.inbox = Append(@, payload)]
        ELSE subs[s]]

\* subscribe that first hands the new listener what was published on the
\* topic before (a replaying bus).
subscribeWithReplay(subs, s, topic, history) ==
    LET earlier == SelectSeq(history, LAMBDA p : p.topic = topic)
    IN  [subs EXCEPT ![s] = [state |-> "active", registered |-> TRUE,
                             topic |-> topic,
                             inbox |-> [i \in DOMAIN earlier |-> earlier[i].payload],
                             since |-> Len(history)]]

\* pubSub.subscribe(topic): a new listener on the topic, with nothing received.
\* history is what was published before; only its length is recorded.
subscribe(subs, s, topic, history) ==
    [subs EXCEPT ![s] = [state |-> "active", registered |-> TRUE,
                         topic |-> topic, inbox |-> <<>>,
                         since |-> Len(history)]]

\* return() that ends the feed but leaves its listener in the registry.
unsubscribeLeaking(subs, s) == [subs EXCEPT ![s].state = "cancelled"]

\* The feed's return(): the feed ends and its listener is removed.
unsubscribe(subs, s) ==
    [subs EXCEPT ![s].state = "cancelled", ![s].registered = FALSE]

---------------------------------------------------------------------------
(* Resolvers *)

\* Query.messages without its filter: every room's messages are returned.
Query_messagesUnfiltered(roomId) ==
    [i \in DOMAIN messages |->
        [messages[i] EXCEPT !.content = decrypt(secretKey, @)]]

\* Query.messages, server.js:118-126
Query_messages(roomId) ==
    LET hits == SelectSeq(messages, LAMBDA m : m.roomId = roomId)
    IN  [i \in DOMAIN hits |->
            [hits[i] EXCEPT !.content = decrypt(secretKey, @)]]

\* storedMessage with the id counted per room instead of over the whole log.
StoredMessageIdPerRoom(log, roomId, user, to, content, iv, t) ==
    [id        |-> String(Len(SelectSeq(log, LAMBDA m : m.roomId = roomId))),
     roomId    |-> roomId,
     user      |-> user,
     to        |-> to,
     content   |-> encrypt(secretKey, iv, content),
     createdAt |-> toISOString(t),
     sent      |-> Plain(content)]

\* storedMessage with ids counted from one: the length of the log after the
\* push instead of before it.
StoredMessageIdFromOne(log, roomId, user, to, content, iv, t) ==
    [id        |-> String(Len(log) + 1),
     roomId    |-> roomId,
     user      |-> user,
     to        |-> to,
     content   |-> encrypt(secretKey, iv, content),
     createdAt |-> toISOString(t),
     sent      |-> Plain(content)]

\* The storedMessage object of postMessage, server.js:131-140.  sent is
\* history only: the content argument of the call, read by no operation.
StoredMessage(log, roomId, user, to, content, iv, t) ==
    [id        |-> String(Len(log)),
     roomId    |-> roomId,
     user      |-> user,
     to        |-> to,
     content   |-> encrypt(secretKey, iv, content),
     createdAt |-> toISOString(t),
     sent      |-> Plain(content)]

\* push that overwrites the last record instead of appending.
pushOverLast(log, storedMessage) ==
    IF Len(log) = 0 THEN <<storedMessage>>
    ELSE [log EXCEPT ![Len(log)] = storedMessage]

\* messages.push(storedMessage), server.js:142
push(log, storedMessage) == Append(log, storedMessage)

\* publicMessage = { ...storedMessage, content }, server.js:148
PublicMessage(storedMessage, content) ==
    [storedMessage EXCEPT !.content = Plain(content)]

\* The names an empty object literal inherits from Object.prototype, as far
\* as they occur among the room ids of the model.
ObjectPrototypeKeys == {"toString"}

\* The position of the own property k of rooms (0: no own property).  rooms
\* is the sequence of its own values in insertion order.
OwnIndex(rooms, k) ==
    IF \E i \in DOMAIN rooms : rooms[i].roomId = k
    THEN CHOOSE i \in DOMAIN rooms : rooms[i].roomId = k
    ELSE 0

\* One turn of the forEach of user_chats_view, part_001:91-96.  For a room id
\* that names an inherited property, rooms[m.roomId] is that (truthy)
\* inherited value, its createdAt is undefined, and the comparison with an
\* invalid Date is false: nothing is assigned.
GroupStep(rooms, m) ==
    LET own == OwnIndex(rooms, m.roomId)
    IN  IF own = 0
        THEN IF m.roomId \in ObjectPrototypeKeys THEN rooms ELSE Append(rooms, m)
        ELSE IF DateValue(m.createdAt) > DateValue(rooms[own].createdAt)
             THEN [rooms EXCEPT ![own] = m]
             ELSE rooms

RECURSIVE GroupByRoom(_, _)
GroupByRoom(rooms, msgs) ==
    IF Len(msgs) = 0 THEN rooms
    ELSE GroupByRoom(GroupStep(rooms, Head(msgs)), Tail(msgs))

\* The summary built from message m that always names m's sender as contact.
UserChatContactIsSender(m, user) ==
    [room_id      |-> m.roomId,
     contact_name |-> m.user,
     last_message |-> decrypt(secretKey, m.content),
     created_at   |-> m.createdAt]

\* The summary of one retained message, part_001:99-106
UserChat(m, user) ==
    [room_id      |-> m.roomId,
     contact_name |-> IF m.user = user THEN m.to ELSE m.user,
     last_message |-> decrypt(secretKey, m.content),
     created_at   |-> m.createdAt]

\* The comparator with its operands exchanged: oldest first.
CompareOldestFirst(a, b) == DateValue(a.created_at) - DateValue(b.created_at)

\* The comparator of the sort, part_001:106
CompareNewestFirst(a, b) == DateValue(b.created_at) - DateValue(a.created_at)

\* Array.prototype.sort is stable: x goes behind every element it does not
\* have to precede.
RECURSIVE InsertSorted(_, _)
InsertSorted(sorted, x) ==
    IF Len(sorted) = 0 THEN <<x>>
    ELSE IF CompareNewestFirst(Head(sorted), x) <= 0
         THEN <<Head(sorted)>> \o InsertSorted(Tail(sorted), x)
         ELSE <<x>> \o sorted

RECURSIVE SortNewestFirst(_)
SortNewestFirst(list) ==
    IF Len(list) = 0 THEN <<>>
    ELSE InsertSorted(SortNewestFirst(SubSeq(list, 1, Len(list) - 1)),
                      list[Len(list)])

\* Query.user_chats_view, part_001:85-107.  Object.values lists string keys
\* in insertion order (no room id of the model is an array index).
user_chats_view(user) ==
    LET myMessages == SelectSeq(messages, LAMBDA m : m.user = user \/ m.to = user)
        rooms      == GroupByRoom(<<>>, myMessages)
    IN  SortNewestFirst([i \in DOMAIN rooms |-> UserChat(rooms[i], user)])

---------------------------------------------------------------------------
(* State machine *)

NoReturn == [op |-> "none", arg |-> "-", value |-> <<>>]

\* The resolver op threw a TypeError: `messages` is no array, so
\* messages.filter and messages.push are not functions.
Thrown(op) == [op |-> "TypeError", arg |-> op, value |-> <<>>]

Init ==
    /\ file = AbsentFile
    /\ messages = loadMessages(file)
    /\ logType = loadedType(file)
    /\ envKey \in EnvKeys
    /\ secretKey \in ProvisionedKeys(envKey)
    /\ now = 998
    /\ subscribers = [s \in SubIds |-> IdleSubscriber]
    /\ ret = NoReturn
    /\ returned = <<>>
    /\ published = <<>>
    /\ posts = 0

\* The first start of a process whose CHAT_SECRET_KEY is a valid key.
InitConfigured == Init /\ envKey = "k1"

\* Time passes: the next new Date() reads a later millisecond.
Tick ==
    /\ now < 998 + MaxClock
    /\ now' = now + 1
    /\ UNCHANGED <<messages, logType, file, secretKey, envKey, subscribers, ret,
                   returned, published, posts>>

\* Mutation.postMessage, server.js:129-154.  iv is what randomBytes(ivLength)
\* drew, outcome what writeFileSync did.
PostMessage(roomId, user, to, content, iv, outcome) ==
    /\ posts < MaxPosts
    /\ IF logType = "array"
       THEN LET storedMessage == StoredMessage(messages, roomId, user, to, content, iv, now)
                log           == push(messages, storedMessage)
                publicMessage == PublicMessage(storedMessage, content)
            IN  /\ messages' = log
                /\ file' = saveMessages(file, log, outcome)
                /\ subscribers' = publish(publish(subscribers, MessageAddedTopic(storedMessage),
                                                  publicMessage),
                                          MessageSentToUserTopic(storedMessage), publicMessage)
                /\ published' = published \o
                      << [topic |-> MessageAddedTopic(storedMessage), payload |-> publicMessage],
                         [topic |-> MessageSentToUserTopic(storedMessage), payload |-> publicMessage] >>
                /\ ret' = [op |-> "postMessage", arg |-> roomId, value |-> publicMessage]
                /\ returned' = Append(returned, publicMessage)
       ELSE /\ ret' = Thrown("postMessage")
            /\ UNCHANGED <<messages, file, subscribers, published, returned>>
    /\ posts' = posts + 1
    /\ UNCHANGED <<logType, secretKey, envKey, now>>

\* A client calls messages(roomId).
QueryMessages(roomId) ==
    /\ ret' = IF logType = "array"
              THEN [op |-> "messages", arg |-> roomId, value |-> Query_messages(roomId)]
              ELSE Thrown("messages")
    /\ UNCHANGED <<messages, logType, file, secretKey, envKey, now, subscribers,
                   returned, published, posts>>

\* A client calls user_chats_view(user).
UserChatsView(user) ==
    /\ ret' = IF logType = "array"
              THEN [op |-> "user_chats_view", arg |-> user, value |-> user_chats_view(user)]
              ELSE Thrown("user_chats_view")
    /\ UNCHANGED <<messages, logType, file, secretKey, envKey, now, subscribers,
                   returned, published, posts>>

\* A client starts the subscription messageAdded(roomId), server.js:157-159.
\* Subscriber slots are taken in order.
SubscribeMessageAdded(s, roomId) ==
    /\ subscribers[s].state = "idle"
    /\ \A q \in SubIds : q < s => subscribers[q].state # "idle"
    /\ subscribers' = subscribe(subscribers, s, RoomTopic(roomId), published)
    /\ UNCHANGED <<messages, logType, file, secretKey, envKey, now, ret, returned,
                   published, posts>>

\* A client starts the subscription messageSentToUser(user), server.js:160-162.
SubscribeMessageSentToUser(s, user) ==
    /\ subscribers[s].state = "idle"
    /\ \A q \in SubIds : q < s => subscribers[q].state # "idle"
    /\ subscribers' = subscribe(subscribers, s, UserTopic(user), published)
    /\ UNCHANGED <<messages, logType, file, secretKey, envKey, now, ret, returned,
                   published, posts>>

\* A subscriber completes its subscription or its socket closes: graphql-ws
\* (useServer, server.js:178-202) calls return() on the feed.
Cancel(s) ==
    /\ subscribers[s].state = "active"
    /\ subscribers' = unsubscribe(subscribers, s)
    /\ UNCHANGED <<messages, logType, file, secretKey, envKey, now, ret, returned,
                   published, posts>>

\* The process ends and is started again, server.js:12-65: the log is loaded
\* from the file, the key is provisioned, the bus is new and empty.
Restart ==
    /\ messages' = loadMessages(file)
    /\ logType' = loadedType(file)
    /\ secretKey' \in ProvisionedKeys(envKey)
    /\ subscribers' = [s \in SubIds |-> IdleSubscriber]
    /\ ret' = NoReturn
    /\ returned' = <<>>
    /\ published' = <<>>
    /\ UNCHANGED <<file, envKey, now, posts>>

\* The store with a configured key: posts to two rooms with every outcome of
\* the write, reads of a room, time, restarts.
NextStore ==
    \/ Tick
    \/ \E roomId \in {"r1", "r2"}, outcome \in WriteOutcomes :
          PostMessage(roomId, "alice", "bob", <<"h", "i">>, "iv1", outcome)
    \/ \E roomId \in {"r1", "r2"} : QueryMessages(roomId)
    \/ Restart

SpecStore == InitConfigured /\ [][NextStore]_vars

\* The codec across restarts: posts of every text under every iv, reads, and
\* restarts under each provisioning of the key.
NextCodec ==
    \/ \E content \in Texts, iv \in IVs, outcome \in {"ok", "untouched"} :
          PostMessage("r1", "alice", "bob", content, iv, outcome)
    \/ QueryMessages("r1")
    \/ Restart

SpecCodec == Init /\ [][NextCodec]_vars

\* The bus: posts to two rooms and two recipients (one post fewer than the
\* store is given), subscriptions to both kinds of topic, cancellations.
NextBus ==
    \/ \E roomId \in {"r1", "r2"}, to \in Users :
          /\ posts < MaxPosts - 1
          /\ PostMessage(roomId, "alice", to, <<"h", "i">>, "iv1", "ok")
    \/ \E s \in SubIds, roomId \in {"r1", "r2"} : SubscribeMessageAdded(s, roomId)
    \/ \E s \in SubIds : SubscribeMessageSentToUser(s, "bob")
    \/ \E s \in SubIds : Cancel(s)

SpecBus == InitConfigured /\ [][NextBus]_vars

\* The inbox view: posts in every room, from alice to bob, from bob to alice
\* and from bob to himself, time, and reads of alice's view.
NextView ==
    \/ Tick
    \/ \E roomId \in Rooms,
          pair \in {<<"alice", "bob">>, <<"bob", "alice">>, <<"bob", "bob">>} :
          PostMessage(roomId, pair[1], pair[2], <<"h", "i">>, "iv1", "ok")
    \/ UserChatsView("alice")

SpecView == InitConfigured /\ [][NextView]_vars

\* The chat list with a third party: three (sender, recipient) pairs over two
\* rooms, so that two messages of one room can differ in their other party,
\* with reads of the log and of the chat list in between.
NextInbox ==
    \/ Tick
    \/ \E roomId \in {"r1", "r2"},
          pair \in {<<"alice", "bob">>, <<"carol", "alice">>, <<"bob", "carol">>} :
          PostMessage(roomId, pair[1], pair[2], <<"h", "i">>, "iv1", "ok")
    \/ UserChatsView("alice")
    \/ QueryMessages("r1")

SpecInbox == InitConfigured /\ [][NextInbox]_vars

\* A process that starts on a backing file that holds no log: absent,
\* unreadable, corrupt, or valid JSON that is no array.
InitBoot ==
    /\ file \in {AbsentFile, UnreadableFile, CorruptFile, NonArrayFile}
    /\ messages = loadMessages(file)
    /\ logType = loadedType(file)
    /\ envKey = "k1"
    /\ secretKey \in ProvisionedKeys(envKey)
    /\ now = 998
    /\ subscribers = [s \in SubIds |-> IdleSubscriber]
    /\ ret = NoReturn
    /\ returned = <<>>
    /\ published = <<>>
    /\ posts = 0

NextBoot ==
    \/ Tick
    \/ \E roomId \in {"r1", "r2"}, outcome \in WriteOutcomes :
          PostMessage(roomId, "alice", "bob", <<"h", "i">>, "iv1", outcome)
    \/ \E roomId \in {"r1", "r2"} : QueryMessages(roomId)

SpecBoot == InitBoot /\ [][NextBoot]_vars

---------------------------------------------------------------------------
(* Claims about the store, checked under SpecStore *)

\* C1: a postMessage whose write of the log to the file failed does not return
\* a Message: whenever the last call is a postMessage that returned one, the
\* file holds the record that call stored.
C1_ReturnedPostIsPersisted ==
    ret.op = "postMessage" =>
        /\ file.kind = "ok"
        /\ \E i \in DOMAIN file.data :
              /\ file.data[i].id = ret.value.id
              /\ file.data[i] = messages[Len(messages)]

RoomIndexes(roomId) == {i \in DOMAIN messages : messages[i].roomId = roomId}

\* C4: messages(roomId) returns the stored messages of that room and no other,
\* each once, oldest first: its k-th element is the message at the k-th
\* smallest position of the log that holds a message of the room.
C4_MessagesOfRoomInAppendOrder ==
    ret.op = "messages" =>
        LET idx == RoomIndexes(ret.arg)
            out == ret.value
        IN  /\ Len(out) = Cardinality(idx)
            /\ \A k \in DOMAIN out :
                  /\ out[k].roomId = ret.arg
                  /\ \E i \in idx :
                        /\ Cardinality({j \in idx : j < i}) = k - 1
                        /\ out[k].id = messages[i].id
                        /\ out[k].user = messages[i].user
                        /\ out[k].to = messages[i].to
                        /\ out[k].createdAt = messages[i].createdAt

\* C4 witness: a read of r1 that returns two messages while a message of r2
\* lies between them in the log.
C4_Witness ==
    /\ ret.op = "messages" /\ ret.arg = "r1"
    /\ Len(ret.value) = 2
    /\ Len(messages) = 3
    /\ messages[2].roomId = "r2"

\* C14: after every postMessage that returned, the persisted copy of the log
\* equals the log in memory: the file holds exactly the records of `messages`.
C14_PersistedEqualsMemory ==
    ret.op = "postMessage" =>
        /\ file.kind = "ok"
        /\ file.data = messages

\* C15: the write of the log precedes every publish: whenever a step publishes
\* a message, to the room's topic or to the recipient's, the persisted log
\* holds the record of that message once the step is done.
C15_PersistedBeforePublished ==
    [][\A p \in (Len(published) + 1)..Len(published') :
          /\ file'.kind = "ok"
          /\ \E i \in DOMAIN file'.data :
                /\ file'.data[i].id = published'[p].payload.id
                /\ file'.data[i].roomId = published'[p].payload.roomId
                /\ file'.data[i].user = published'[p].payload.user
                /\ file'.data[i].to = published'[p].payload.to
                /\ file'.data[i].createdAt = published'[p].payload.createdAt]_vars

\* C20: the id of every stored message is its index in the log: the ids of a
\* log of n records are "0" .. "n-1" in order, without gap or duplicate, after
\* any sequence of posts, also in a process that loaded its log from the file
\* and in the log the file holds.
C20_IdIsIndex ==
    /\ \A i \in DOMAIN messages : messages[i].id = String(i - 1)
    /\ file.kind = "ok" =>
          \A i \in DOMAIN file.data : file.data[i].id = String(i - 1)

\* C20 witness: a process that loaded a log of two records from the file has
\* stored a third message, under the id "2".
C20_Witness ==
    /\ Len(messages) = 3
    /\ Len(returned) = 1
    /\ ret.op = "postMessage"
    /\ Number(ret.value.id) = 2
    /\ messages[3].id = ret.value.id

\* C21: the persisted log only grows, across posts and restarts: a record that
\* the file holds is still held, at the same place, after every step; the
\* file stays a log and the log it held is a prefix of the log it holds.
C21_PersistedLogOnlyGrows ==
    [][file.kind = "ok" =>
          /\ file'.kind = "ok"
          /\ Len(file'.data) >= Len(file.data)
          /\ SubSeq(file'.data, 1, Len(file.data)) = file.data]_vars

---------------------------------------------------------------------------
(* Claims about the codec, checked under SpecCodec *)

\* C5: with one key for encrypting and decrypting, every message that
\* messages(roomId) returns has as content the plaintext that was passed to the
\* postMessage call that created it: for each returned message whose stored
\* token was made under the process's key, content equals that argument.
C5_QueryReturnsPostedPlaintext ==
    ret.op = "messages" =>
        \A k \in DOMAIN ret.value :
            LET stored == messages[Number(ret.value[k].id) + 1]
            IN  stored.content.key = secretKey =>
                    ret.value[k].content = ret.value[k].sent

\* C12: a token that was made under another key than the process's (a log
\* persisted by an earlier run that drew another random key) decrypts to the
\* sentinel "[Error: Could not decrypt message]": every message that
\* messages(roomId) returns for such a record has the sentinel as content,
\* never some other text.
C12_WrongKeyGivesSentinel ==
    ret.op = "messages" =>
        \A k \in DOMAIN ret.value :
            LET stored == messages[Number(ret.value[k].id) + 1]
            IN  stored.content.key # secretKey =>
                    ret.value[k].content = Sentinel

\* C17: a record that cannot be decrypted does not abort a batch read:
\* messages(roomId) returns one message for every record of the room, in log
\* order, with the sentinel as content for each record whose token was made
\* under another key and the posted plaintext for every other record.
C17_BatchReadSurvivesUndecodable ==
    ret.op = "messages" =>
        /\ Len(ret.value) = Cardinality(RoomIndexes(ret.arg))
        /\ \A k \in DOMAIN ret.value :
              LET i == Number(ret.value[k].id) + 1
              IN  /\ i \in RoomIndexes(ret.arg)
                  /\ \A l \in DOMAIN ret.value :
                        k < l => i < Number(ret.value[l].id) + 1
                  /\ ret.value[k].content =
                        IF messages[i].content.key = secretKey
                        THEN ret.value[k].sent
                        ELSE Sentinel

---------------------------------------------------------------------------
(* Claims about the start of a process, checked under SpecBoot *)

\* C13: a process started on a backing file that is absent, unreadable or
\* corrupt, valid JSON that is no array included, starts with the empty log,
\* and its messages and postMessage calls work: the log holds nothing before
\* the first post, and no call throws.
C13_BadFileStartsEmptyAndWorks ==
    /\ posts = 0 => messages = <<>>
    /\ ret.op # "TypeError"

---------------------------------------------------------------------------
(* Claims about the bus, checked under SpecBus *)

\* C2: one postMessage with roomId R gives every subscriber that is registered
\* on messageAdded(R) exactly one more message, the plaintext Message of that
\* call, and gives a subscriber of messageAdded(R') with R' # R nothing.
C2_FanOutToRoomSubscribers ==
    [][posts' = posts + 1 =>
        \A s \in SubIds :
            (subscribers[s].state = "active" /\ subscribers[s].topic[1] = "MESSAGE_ADDED_") =>
                LET before == subscribers[s].inbox
                    after  == subscribers'[s].inbox
                IN  IF subscribers[s].topic[2] = ret'.arg
                    THEN /\ Len(after) = Len(before) + 1
                         /\ SubSeq(after, 1, Len(before)) = before
                         /\ after[Len(after)].id = ret'.value.id
                         /\ after[Len(after)].roomId = ret'.arg
                         /\ after[Len(after)].content = after[Len(after)].sent
                    ELSE after = before]_vars

\* C2 witness: two subscribers of messageAdded("r1") that each hold exactly
\* the Message the last postMessage returned.
C2_Witness ==
    /\ ret.op = "postMessage" /\ ret.arg = "r1"
    /\ \A s \in {1, 2} :
          /\ subscribers[s].state = "active"
          /\ subscribers[s].topic = RoomTopic("r1")
          /\ subscribers[s].inbox = <<ret.value>>

\* C6: every postMessage publishes the plaintext Message it returns to two
\* topics, the room topic of roomId and the user topic of `to`: subscribers of
\* those two receive exactly that Message, every other subscriber (among them
\* messageSentToUser(u) with u # to) receives nothing.
C6_PublishedToRoomAndRecipient ==
    [][posts' = posts + 1 =>
        LET m == ret'.value
            n == Len(published)
        IN  /\ m.content = m.sent
            /\ Len(published') = n + 2
            /\ {published'[n + 1].topic, published'[n + 2].topic}
                  = {RoomTopic(ret'.arg), UserTopic(m.to)}
            /\ published'[n + 1].payload = m /\ published'[n + 2].payload = m
            /\ \A s \in SubIds :
                  subscribers[s].state = "active" =>
                      IF subscribers[s].topic \in {RoomTopic(ret'.arg), UserTopic(m.to)}
                      THEN subscribers'[s].inbox = Append(subscribers[s].inbox, m)
                      ELSE subscribers'[s].inbox = subscribers[s].inbox]_vars

\* C6 witness: a subscriber of messageSentToUser("bob"), registered before any
\* post, after one post to alice and one to bob: it holds the second only.
C6_Witness ==
    /\ Len(published) = 4
    /\ published[2].topic = UserTopic("alice")
    /\ published[4].topic = UserTopic("bob")
    /\ \E s \in SubIds :
          /\ subscribers[s].state = "active"
          /\ subscribers[s].topic = UserTopic("bob")
          /\ subscribers[s].since = 0
          /\ subscribers[s].inbox = <<ret.value>>

\* C7: a subscriber receives only what was published on its topic after it
\* registered, and nothing that was published before.
C7_NoReplay ==
    \A s \in SubIds :
        subscribers[s].state # "idle" =>
            /\ \A k \in DOMAIN subscribers[s].inbox :
                  \E p \in (subscribers[s].since + 1)..Len(published) :
                      /\ published[p].topic = subscribers[s].topic
                      /\ published[p].payload = subscribers[s].inbox[k]
            /\ \A p \in 1..subscribers[s].since :
                  \A k \in DOMAIN subscribers[s].inbox :
                      subscribers[s].inbox[k] # published[p].payload

\* C7 witness: a subscriber that registered after a message had been published
\* on its topic, and has received a later one.
C7_Witness ==
    \E s \in SubIds :
        /\ subscribers[s].state = "active"
        /\ \E p \in 1..subscribers[s].since :
              published[p].topic = subscribers[s].topic
        /\ Len(subscribers[s].inbox) = 1

\* C8: once a subscriber has cancelled its feed, its listener is in no
\* registry, no later step gives it anything, and a postMessage made then
\* still returns its Message.
C8_CancelledReceivesNothing ==
    [][\A s \in SubIds :
          subscribers[s].state = "cancelled" =>
              /\ ~subscribers[s].registered
              /\ subscribers'[s] = subscribers[s]
              /\ (posts' = posts + 1 => ret'.op = "postMessage")]_vars

\* C8 witness: a cancelled subscriber of a room topic on which a message was
\* published after the cancellation.
C8_Witness ==
    \E s \in SubIds :
        /\ subscribers[s].state = "cancelled"
        /\ subscribers[s].topic[1] = "MESSAGE_ADDED_"
        /\ Len(subscribers[s].inbox) = 1
        /\ \E p \in (subscribers[s].since + 1)..Len(published) :
              /\ published[p].topic = subscribers[s].topic
              /\ published[p].payload # subscribers[s].inbox[1]

\* What was published on a topic after the first n publishes, in the order of
\* the publishes.
PublishedSince(topic, n) ==
    LET later == SelectSeq(SubSeq(published, n + 1, Len(published)),
                           LAMBDA p : p.topic = topic)
    IN  [k \in DOMAIN later |-> later[k].payload]

\* C19: within one room channel every subscriber that stays registered receives
\* the messages posted to the room in the order of the posts, and all of them
\* see the same order: the messages a registered subscriber holds are exactly
\* those published on its topic since it registered, in publish order, with
\* increasing ids, and of two such subscribers of one room the later one holds
\* the tail of what the earlier one holds.
C19_RoomFeedInPostOrder ==
    \A s \in SubIds :
        (subscribers[s].state = "active" /\ subscribers[s].topic[1] = "MESSAGE_ADDED_") =>
            LET inbox == subscribers[s].inbox
            IN  /\ inbox = PublishedSince(subscribers[s].topic, subscribers[s].since)
                /\ \A k, l \in DOMAIN inbox :
                      k < l => Number(inbox[k].id) < Number(inbox[l].id)
                /\ \A t \in SubIds :
                      (/\ subscribers[t].state = "active"
                       /\ subscribers[t].topic = subscribers[s].topic
                       /\ Len(subscribers[t].inbox) <= Len(inbox)) =>
                          subscribers[t].inbox =
                              SubSeq(inbox, Len(inbox) - Len(subscribers[t].inbox) + 1, Len(inbox))

\* C19 witness: two subscribers registered on the same room throughout two
\* posts to it, each holding both messages.
C19_Witness ==
    \E s, t \in SubIds :
        /\ s # t
        /\ subscribers[s].state = "active" /\ subscribers[t].state = "active"
        /\ subscribers[s].topic = RoomTopic("r1")
        /\ subscribers[t].topic = RoomTopic("r1")
        /\ Len(subscribers[s].inbox) = 2
        /\ Len(subscribers[t].inbox) = 2
        /\ subscribers[s].inbox[1].id # subscribers[s].inbox[2].id

---------------------------------------------------------------------------
(* Claims about user_chats_view, checked under SpecView *)

Involves(m, user) == m.user = user \/ m.to = user

\* C9: user_chats_view(user) returns at most one summary per room, one for
\* every room that has a message with user as sender or recipient, each built
\* from a message of that room that has the greatest createdAt among the
\* room's messages with user as sender or recipient.
C9_OneLatestSummaryPerRoom ==
    ret.op = "user_chats_view" =>
        LET out  == ret.value
            user == ret.arg
        IN  /\ \A i, j \in DOMAIN out : out[i].room_id = out[j].room_id => i = j
            /\ \A i \in DOMAIN messages :
                  Involves(messages[i], user) =>
                      \E k \in DOMAIN out : out[k].room_id = messages[i].roomId
            /\ \A k \in DOMAIN out :
                  \E i \in DOMAIN messages :
                      /\ messages[i].roomId = out[k].room_id
                      /\ Involves(messages[i], user)
                      /\ out[k].created_at = messages[i].createdAt
                      /\ out[k].last_message = messages[i].sent
                      /\ \A j \in DOMAIN messages :
                            (messages[j].roomId = out[k].room_id /\ Involves(messages[j], user))
                                => DateValue(messages[j].createdAt) <= DateValue(messages[i].createdAt)

\* C10: the list user_chats_view returns is ordered by created_at, newest
\* first: no summary is older than the one that follows it.
C10_NewestFirst ==
    ret.op = "user_chats_view" =>
        \A k \in 1..(Len(ret.value) - 1) :
            DateValue(ret.value[k].created_at) >= DateValue(ret.value[k + 1].created_at)

\* C10 witness: a view of two rooms in which the room that was posted to
\* first, and so was grouped first, comes second because its last message is
\* the older one.
C10_Witness ==
    /\ ret.op = "user_chats_view"
    /\ Len(ret.value) = 2
    /\ ret.value[2].room_id = messages[1].roomId
    /\ DateValue(ret.value[1].created_at) > DateValue(ret.value[2].created_at)

---------------------------------------------------------------------------
(* Claims about the chat list with a third party, checked under SpecInbox *)

\* C11: in every summary user_chats_view(user) returns, contact_name is the
\* other party of the message the summary was built from: that message's
\* recipient when user is its sender, and its sender otherwise.
C11_ContactIsOtherParty ==
    ret.op = "user_chats_view" =>
        LET out  == ret.value
            user == ret.arg
        IN  \A k \in DOMAIN out :
                \E i \in DOMAIN messages :
                    /\ messages[i].roomId = out[k].room_id
                    /\ Involves(messages[i], user)
                    /\ messages[i].createdAt = out[k].created_at
                    /\ out[k].contact_name = IF messages[i].user = user
                                             THEN messages[i].to
                                             ELSE messages[i].user

\* C11 witness: a chat list of two rooms, the only message of one sent by the
\* user (the contact is its recipient) and the only message of the other sent
\* to the user (the contact is its sender).
C11_Witness ==
    /\ ret.op = "user_chats_view"
    /\ Len(messages) = 2
    /\ Len(ret.value) = 2
    /\ \E i, j \in DOMAIN messages :
          /\ messages[i].roomId # messages[j].roomId
          /\ messages[i].user = ret.arg /\ messages[i].to = "bob"
          /\ messages[j].to = ret.arg /\ messages[j].user = "carol"
    /\ {ret.value[k].contact_name : k \in DOMAIN ret.value} = {"bob", "carol"}

\* The indexes of the messages of room roomId that involve user and carry the
\* greatest createdAt among them.
NewestIndexes(roomId, user) ==
    LET mine == {i \in DOMAIN messages :
                    messages[i].roomId = roomId /\ Involves(messages[i], user)}
    IN  {i \in mine : \A j \in mine :
            DateValue(messages[j].createdAt) <= DateValue(messages[i].createdAt)}

\* The greatest element of a non-empty set of indexes.
MaxIndex(S) == CHOOSE i \in S : \A j \in S : j <= i

\* C16: when several messages of one room that involve the user carry the
\* room's greatest createdAt, user_chats_view builds the room's summary from
\* the one that is last in the log.
C16_TieKeepsLaterInLog ==
    ret.op = "user_chats_view" =>
        \A k \in DOMAIN ret.value :
            LET newest == NewestIndexes(ret.value[k].room_id, ret.arg)
                m      == messages[MaxIndex(newest)]
            IN  /\ newest # {}
                /\ ret.value[k].created_at = m.createdAt
                /\ ret.value[k].last_message = m.sent
                /\ ret.value[k].contact_name = IF m.user = ret.arg THEN m.to ELSE m.user

\* C18: the log is append-only and its records are immutable: a postMessage
\* step adds exactly one record at the end and leaves every earlier record as
\* it was; every other step (messages, user_chats_view, the publishes within
\* a post, the clock) leaves the log as it was; the stored content stays the
\* ciphertext.
C18_AppendOnly ==
    [][/\ posts' = posts + 1 =>
             /\ Len(messages') = Len(messages) + 1
             /\ SubSeq(messages', 1, Len(messages)) = messages
       /\ posts' = posts => messages' = messages
       /\ \A i \in DOMAIN messages' : messages'[i].content.kind = "cipher"]_vars

\* C18 witness: messages(roomId) has returned two messages with their
\* plaintext while the log still holds, in the order they were posted, the
\* records of all posts with their ciphertext.
C18_Witness ==
    /\ ret.op = "messages"
    /\ Len(ret.value) = 2
    /\ Len(messages) = 3
    /\ Len(returned) = 3
    /\ \A i \in DOMAIN messages :
          /\ messages[i].id = returned[i].id
          /\ messages[i].roomId = returned[i].roomId
          /\ messages[i].createdAt = returned[i].createdAt
          /\ messages[i].content.kind = "cipher"
    /\ \A k \in DOMAIN ret.value : ret.value[k].content.kind = "plain"

===========================================================================
